---- MODULE Spec2Model ----
(***************************************************************************)
(* Linked ring buffer (src/src/lr.c, src/include/lr.h).                    *)
(*                                                                         *)
(* A cell pointer is modelled by the cell's index in the array `cells`:    *)
(* cells + i is i, the null pointer is NULL.  A pointer that pointer       *)
(* arithmetic moved outside cells[0..size) is not in DOMAIN cells; reading *)
(* or writing through it, or through NULL, is an invalid memory access and *)
(* ends the call with the pseudo result SEGV.  A loop of the code that     *)
(* never reaches its stop condition ends the call with HANG.               *)
(***************************************************************************)
EXTENDS Integers, Sequences, FiniteSets, TLC

\* ---- bounds of the model ----
MaxSize  == 4
MaxOwner == 2
MaxData  == 2
MaxIndex == 2
MaxCalls == 3      \* calls per thread under SpecMT
MaxSeqCalls == 6   \* calls of the single caller under Spec

Sizes   == 1..MaxSize
OwnerId == 1..MaxOwner
Data    == 1..MaxData
Index   == 0..MaxIndex
Threads == {1, 2}

NULL == -1      \* the null pointer
BAD  == -2      \* scan result: the scan left the array
LOOP == -3      \* scan result: the scan never stops

LR_OK                 == "LR_OK"
LR_ERROR_NOMEMORY     == "LR_ERROR_NOMEMORY"
LR_ERROR_BUFFER_FULL  == "LR_ERROR_BUFFER_FULL"
LR_ERROR_BUFFER_EMPTY == "LR_ERROR_BUFFER_EMPTY"
SEGV                  == "SEGV"
HANG                  == "HANG"

VARIABLES
  cells,   \* lr->cells[0..size): [data, next]
  size,    \* lr->size
  write,   \* lr->write
  owners,  \* lr->owners
  bound,   \* lr->lock != NULL (a mutex is bound)
  mtx,     \* the caller's mutex: 0 free, else the thread that holds it
  pc,      \* per thread: "idle", or "insert_put" between lr_insert's unlock and its lr_put;
           \* pc[2] = "no_unlock" under a single caller: lr->unlock == NULL
  calls,   \* per thread: the number of calls it has started (the single caller is thread 1)
  arg,     \* per thread: the (data, owner) lr_insert hands to lr_put
  last     \* the call that returned last: op, owner, data, index, res, out, str

vars == <<cells, size, write, owners, bound, mtx, pc, calls, arg, last>>

\* struct linked_ring as a value
Arena == [cells |-> cells, size |-> size, write |-> write, owners |-> owners]

SetNext(c, i, n) == [c EXCEPT ![i].next = n]
SetData(c, i, d) == [c EXCEPT ![i].data = d]

\* result of a public operation: the arena it leaves, its return value, the
\* value stored through the out parameter, the number of unlock() it ran
Ret(lr, res, out, unl) == [lr |-> lr, res |-> res, out |-> out, unl |-> unl, str |-> <<>>]
Fault(lr, kind)        == Ret(lr, kind, 0, 0)

\* result of an internal owner function: the arena, the cell returned, a fault
Own(lr, cell, err) == [lr |-> lr, cell |-> cell, err |-> err]

lr_owners_count(lr) == IF lr.owners = NULL THEN 0 ELSE lr.size - lr.owners

lr_last_cell(lr) == lr.size - 1

lr_owner_find_any(lr, owner) ==
  LET hits == {i \in DOMAIN lr.cells :
                 /\ lr.owners # NULL
                 /\ i >= lr.owners}
  IN IF hits = {} THEN NULL ELSE CHOOSE i \in hits : \A j \in hits : i <= j

lr_owner_find(lr, owner) ==
  LET hits == {i \in DOMAIN lr.cells :
                 /\ lr.owners # NULL
                 /\ i >= lr.owners
                 /\ lr.cells[i].data = owner}
  IN IF hits = {} THEN NULL ELSE CHOOSE i \in hits : \A j \in hits : i <= j

\* while (p->next == NULL && p < last_cell) p += 1;
RECURSIVE SkipNullBounded(_, _, _)
SkipNullBounded(c, p, lastc) ==
  IF p \notin DOMAIN c THEN BAD
  ELSE IF c[p].next = NULL /\ p < lastc THEN SkipNullBounded(c, p + 1, lastc)
  ELSE p

\* while (p->next == NULL) p += 1;
RECURSIVE SkipNull(_, _)
SkipNull(c, p) ==
  IF p \notin DOMAIN c THEN BAD
  ELSE IF c[p].next = NULL THEN SkipNull(c, p + 1)
  ELSE p

\* needle = head; while (needle->next != head && needle->next != cell) needle = needle->next;
RECURSIVE WalkTo(_, _, _, _, _)
WalkTo(c, head, cell, needle, fuel) ==
  IF needle \notin DOMAIN c THEN BAD
  ELSE IF c[needle].next # head /\ c[needle].next # cell
       THEN IF fuel = 0 THEN LOOP
            ELSE WalkTo(c, head, cell, c[needle].next, fuel - 1)
       ELSE needle

ScanErr(p) == IF p = LOOP THEN HANG ELSE SEGV

lr_cell_swap(lr, cell) ==
  LET swap == lr.write
      c1   == [lr.cells EXCEPT ![swap] = lr.cells[cell]]
      c2   == [i \in DOMAIN c1 |->
                 IF c1[i].next = cell THEN [c1[i] EXCEPT !.next = swap] ELSE c1[i]]
  IN [lr |-> [lr EXCEPT !.cells = c2, !.write = lr.cells[swap].next], swap |-> swap]

\* lr_cell_lookup after lr_cell_swap returned s: needle->next = swap
CellRelinked(s, needle, cell) ==
  Own([s.lr EXCEPT !.cells = SetNext(s.lr.cells, needle, s.swap)], cell, "")

\* lr_cell_lookup from the cell `needle` where its scan stopped
CellLookupAt(lr, cell, needle) ==
  IF needle \in {BAD, LOOP} THEN Own(lr, NULL, ScanErr(needle))
  ELSE IF lr.cells[needle].next = cell
       THEN CellRelinked(lr_cell_swap(lr, cell), needle, cell)
       ELSE Own(lr, NULL, "")

lr_cell_lookup(lr, head, cell) ==
  CellLookupAt(lr, cell, WalkTo(lr.cells, head, cell, head, lr.size))

\* lr_owner_allocate: the owner cell is taken out of the free pool, `needle`
\* being the cell where the scan of the pool stopped
AllocateFromPool(lr, owner_cell, needle) ==
  IF needle \in {BAD, LOOP} THEN Own(lr, NULL, ScanErr(needle))
  ELSE IF lr.cells[needle].next = owner_cell
       THEN Own([lr EXCEPT !.cells =
                   SetNext(lr.cells, needle, lr.cells[owner_cell].next)],
                owner_cell, "")
       ELSE Own(lr, NULL, "")

\* lr_owner_allocate: the look-up of the owner cell in the ring of data cells
AllocateRingLookup(lr, owner_cell, owner_needle) ==
  IF owner_needle = BAD THEN Own(lr, NULL, SEGV)
  ELSE lr_cell_lookup(lr, lr.cells[owner_needle].next, owner_cell)

\* lr_owner_allocate after the look-up in the ring returned `ring`
AllocateAfterLookup(lr, owner_cell, ring) ==
  IF ring.err # "" \/ ring.cell # NULL THEN ring
  ELSE IF owner_cell = lr.write
       THEN Own([lr EXCEPT !.write = lr.cells[lr.write].next], owner_cell, "")
       ELSE AllocateFromPool(lr, owner_cell,
                             WalkTo(lr.cells, lr.write, owner_cell, lr.write, lr.size))

\* lr_owner_allocate for owner_cell = &lr->cells[lr->size - owners_nr - 1]
AllocateCell(lr, owner_cell) ==
  IF owner_cell \notin DOMAIN lr.cells THEN Own(lr, NULL, SEGV)
  ELSE AllocateAfterLookup(lr, owner_cell,
                           IF lr.owners # NULL
                           THEN AllocateRingLookup(lr, owner_cell, SkipNull(lr.cells, lr.owners))
                           ELSE Own(lr, NULL, ""))

lr_owner_allocate(lr) == AllocateCell(lr, lr.size - lr_owners_count(lr) - 1)

\* lr_owner_get after lr_owner_allocate returned a:
\* lr->owners = a.cell; lr->owners->data = owner; lr->owners->next = NULL
OwnerAllocated(a, owner) ==
  IF a.err # "" THEN a
  ELSE IF a.cell = NULL THEN Own([a.lr EXCEPT !.owners = NULL], NULL, SEGV)
  ELSE Own([a.lr EXCEPT !.owners = a.cell,
                        !.cells = [a.lr.cells EXCEPT ![a.cell] =
                                     [data |-> owner, next |-> NULL]]],
           a.cell, "")

\* lr_owner_get after lr_owner_find returned `found`, as it would be without
\* the test that a second cell is free
OwnerFoundOrNew_unchecked(lr, owner, found) ==
  IF found # NULL THEN Own(lr, found, "")
  ELSE IF lr.write \notin DOMAIN lr.cells THEN Own(lr, NULL, SEGV)
  ELSE OwnerAllocated(lr_owner_allocate(lr), owner)

\* lr_owner_get after lr_owner_find returned `found`
OwnerFoundOrNew(lr, owner, found) ==
  IF found # NULL THEN Own(lr, found, "")
  ELSE IF lr.write \notin DOMAIN lr.cells THEN Own(lr, NULL, SEGV)
  ELSE IF lr.cells[lr.write].next = NULL THEN Own(lr, NULL, "")
  ELSE OwnerAllocated(lr_owner_allocate(lr), owner)

lr_owner_get(lr, owner) == OwnerFoundOrNew(lr, owner, lr_owner_find(lr, owner))

\* prev_owner->next->next = cell, after cell->next was set in c2
LinkAfterTail(c2, prev_owner, cell) == SetNext(c2, c2[prev_owner].next, cell)

\* the new-owner branch of lr_put and lr_push from the neighbour record
\* `prev_owner` where the scan stopped
LinkBehind(c, prev_owner, cell) ==
  IF c[prev_owner].next # NULL
  THEN LinkAfterTail(SetNext(c, cell, c[c[prev_owner].next].next), prev_owner, cell)
  ELSE SetNext(c, cell, cell)

\* the new-owner branch of lr_put and lr_push: link `cell` behind the tail of
\* the neighbouring owner record, or to itself
LinkNewOwner(lr, c, owner_cell, cell) ==
  IF owner_cell < lr_last_cell(lr)
  THEN LinkBehind(c, SkipNullBounded(c, owner_cell + 1, lr_last_cell(lr)), cell)
  ELSE SetNext(c, cell, cell)

\* the cell that linking a new cell writes through: tail, or in the new-owner
\* branch prev_owner->next; NULL when the new cell is linked to itself
LinkedThrough(l1, owner_cell, tail) ==
  IF tail # NULL THEN tail
  ELSE IF owner_cell < lr_last_cell(l1)
       THEN l1.cells[SkipNullBounded(l1.cells, owner_cell + 1, lr_last_cell(l1))].next
       ELSE NULL

\* cell->next = tail->next; tail->next = cell, or the new-owner branch
PutLinked(l1, c1, owner_cell, tail, cell) ==
  IF tail # NULL
  THEN SetNext(SetNext(c1, cell, c1[tail].next), tail, cell)
  ELSE LinkNewOwner(l1, c1, owner_cell, cell)

\* lr_put from `cell = lr->write` on
PutCell(l1, owner_cell, tail, cell, data) ==
  IF cell \notin DOMAIN l1.cells THEN Fault(l1, SEGV)
  ELSE IF LinkedThrough(l1, owner_cell, tail) \notin DOMAIN l1.cells \cup {NULL}
       THEN Fault(l1, SEGV)
  ELSE Ret([l1 EXCEPT !.write = l1.cells[cell].next,
                      !.cells = SetNext(PutLinked(l1, SetData(l1.cells, cell, data),
                                                  owner_cell, tail, cell),
                                        owner_cell, cell)],
           LR_OK, 0, 1)

\* lr_put after lr_owner_get returned g
PutOwned(g, data) ==
  IF g.err # "" THEN Fault(g.lr, g.err)
  ELSE IF g.cell = NULL THEN Ret(g.lr, LR_ERROR_BUFFER_FULL, 0, 1)
  ELSE PutCell(g.lr, g.cell, g.lr.cells[g.cell].next, g.lr.write, data)

\* lr_put as it would be if it kept one cell in reserve for every owner
lr_put_spare(lr, data, owner) ==
  IF lr.write = NULL \/ lr.cells[lr.write].next = NULL
  THEN Ret(lr, LR_ERROR_BUFFER_FULL, 0, 1)
  ELSE PutOwned(lr_owner_get(lr, owner), data)

lr_put(lr, data, owner) ==
  IF lr.write = NULL THEN Ret(lr, LR_ERROR_BUFFER_FULL, 0, 1)
  ELSE PutOwned(lr_owner_get(lr, owner), data)

\* cell->next = tail->next; tail->next = cell, or lr_push's new-owner branch
PushLinked(l1, c1, owner_cell, tail, cell) ==
  IF tail # NULL
  THEN SetNext(SetNext(c1, cell, c1[tail].next), tail, cell)
  ELSE LinkNewOwner(l1, c1, owner_cell, cell)

\* lr_push from `cell = lr->write` on
PushCell(l1, owner_cell, tail, cell, data) ==
  IF cell \notin DOMAIN l1.cells THEN Fault(l1, SEGV)
  ELSE IF LinkedThrough(l1, owner_cell, tail) \notin DOMAIN l1.cells \cup {NULL}
       THEN Fault(l1, SEGV)
  ELSE Ret([l1 EXCEPT !.write = l1.cells[cell].next,
                      !.cells = SetNext(PushLinked(l1, SetData(l1.cells, cell, data),
                                                   owner_cell, tail, cell),
                                        owner_cell, cell)],
           LR_OK, 0, 1)

\* lr_push after lr_owner_get returned g
PushOwned(g, data) ==
  IF g.err # "" THEN Fault(g.lr, g.err)
  ELSE IF g.cell = NULL THEN Ret(g.lr, LR_ERROR_BUFFER_FULL, 0, 1)
  ELSE PushCell(g.lr, g.cell, g.lr.cells[g.cell].next, g.lr.write, data)

lr_push(lr, data, owner) ==
  IF lr.write = NULL THEN Ret(lr, LR_ERROR_BUFFER_FULL, 0, 1)
  ELSE PushOwned(lr_owner_get(lr, owner), data)

\* for (owner_swap = owner_cell; owner_swap > lr->owners; owner_swap--)
\*     *owner_swap = *(owner_swap - 1);
ShiftOwners(c, first, owner_cell) ==
  [i \in DOMAIN c |-> IF i > first /\ i <= owner_cell THEN c[i - 1] ELSE c[i]]

\* if (lr->owners == last_cell) lr->owners = NULL; else lr->owners += 1;
OwnersAfterRelease(lr) ==
  IF lr.owners = lr_last_cell(lr) THEN NULL ELSE lr.owners + 1

\* the neighbour record the head is found through, before the null-skip scan
NeighbourOf(lr, owner_cell) ==
  IF owner_cell = lr_last_cell(lr) THEN lr.owners ELSE owner_cell + 1

lr_get(lr, owner) ==
  LET owner_cell == lr_owner_find(lr, owner)
      c          == lr.cells
  IN IF owner_cell = NULL THEN Ret(lr, LR_ERROR_BUFFER_EMPTY, 0, 1)
     ELSE LET prev_owner == SkipNullBounded(c, NeighbourOf(lr, owner_cell), lr_last_cell(lr))
          IN IF prev_owner = BAD THEN Fault(lr, SEGV)
             ELSE IF c[prev_owner].next = NULL THEN Ret(lr, LR_ERROR_BUFFER_EMPTY, 0, 1)
             ELSE IF c[prev_owner].next \notin DOMAIN c THEN Fault(lr, SEGV)
             ELSE LET head == c[c[prev_owner].next].next
                  IN IF head \notin DOMAIN c THEN Fault(lr, SEGV)
                     ELSE LET c1   == SetNext(c, c[prev_owner].next, c[head].next)
                              out  == c1[head].data
                              tail == c1[owner_cell].next
                              l2   == IF head = tail
                                      THEN [lr EXCEPT
                                              !.cells  = SetNext(ShiftOwners(c1, lr.owners, owner_cell),
                                                                 lr.owners, lr.write),
                                              !.write  = lr.owners,
                                              !.owners = OwnersAfterRelease(lr)]
                                      ELSE [lr EXCEPT !.cells = c1]
                          IN Ret([l2 EXCEPT !.cells = SetData(SetNext(l2.cells, head, l2.write), head, 0),
                                            !.write = head],
                                 LR_OK, out, 1)

\* needle = head; while (needle != tail) { if (needle->next == tail) {...} else needle = needle->next; }
RECURSIVE PopUnlink(_, _, _, _, _)
PopUnlink(c, needle, tail, owner_cell, fuel) ==
  IF needle = tail THEN [c |-> c, err |-> ""]
  ELSE IF needle \notin DOMAIN c THEN [c |-> c, err |-> SEGV]
  ELSE IF c[needle].next = tail
       THEN LET c1 == SetNext(c, owner_cell, needle)
            IN [c |-> SetNext(c1, needle, c1[tail].next), err |-> ""]
       ELSE IF fuel = 0 THEN [c |-> c, err |-> HANG]
            ELSE PopUnlink(c, c[needle].next, tail, owner_cell, fuel - 1)

lr_pop(lr, owner) ==
  LET owner_cell == lr_owner_find(lr, owner)
      c          == lr.cells
  IN IF owner_cell = NULL THEN Ret(lr, LR_ERROR_BUFFER_EMPTY, 0, 0)
     ELSE LET prev_owner == SkipNull(c, NeighbourOf(lr, owner_cell))
          IN IF prev_owner = BAD THEN Fault(lr, SEGV)
             ELSE IF c[prev_owner].next \notin DOMAIN c THEN Fault(lr, SEGV)
             ELSE LET head == c[c[prev_owner].next].next
                      tail == c[owner_cell].next
                  IN IF tail \notin DOMAIN c THEN Fault(lr, SEGV)
                     ELSE LET out == c[tail].data
                              c1  == ShiftOwners(c, lr.owners, owner_cell)
                              ok  == prev_owner = owner_cell \/ c1[prev_owner].next \in DOMAIN c
                              c2  == IF prev_owner # owner_cell
                                     THEN SetNext(c1, c1[prev_owner].next, c1[tail].next)
                                     ELSE c1
                              l2  == IF head = tail
                                     THEN [lr EXCEPT !.cells  = SetNext(c2, lr.owners, lr.write),
                                                     !.write  = lr.owners,
                                                     !.owners = OwnersAfterRelease(lr)]
                                     ELSE lr
                              u   == PopUnlink(l2.cells, head, tail, owner_cell, lr.size)
                          IN IF head = tail /\ ~ok THEN Fault([lr EXCEPT !.cells = c1], SEGV)
                             ELSE IF u.err # "" THEN Fault(l2, u.err)
                             ELSE Ret([l2 EXCEPT !.cells = SetNext(u.c, tail, l2.write),
                                                 !.write = tail],
                                      LR_OK, out, 1)

\* while (needle_index < index - 1 && needle->next != tail && needle->next != head)
RECURSIVE PullWalk(_, _, _, _, _, _)
PullWalk(c, needle, needle_index, index, tail, head) ==
  IF needle \notin DOMAIN c THEN [needle |-> BAD, needle_index |-> needle_index]
  ELSE IF needle_index < index - 1 /\ c[needle].next # tail /\ c[needle].next # head
       THEN PullWalk(c, c[needle].next, needle_index + 1, index, tail, head)
       ELSE [needle |-> needle, needle_index |-> needle_index]

lr_pull(lr, owner, index) ==
  LET owner_cell == lr_owner_find(lr, owner)
      c          == lr.cells
  IN IF owner_cell = NULL THEN Ret(lr, LR_ERROR_BUFFER_EMPTY, 0, 1)
     ELSE LET prev_owner == SkipNullBounded(c, NeighbourOf(lr, owner_cell), lr_last_cell(lr))
          IN IF prev_owner = BAD THEN Fault(lr, SEGV)
             ELSE IF c[prev_owner].next = NULL THEN Ret(lr, LR_ERROR_BUFFER_EMPTY, 0, 1)
             ELSE IF c[prev_owner].next \notin DOMAIN c THEN Fault(lr, SEGV)
             ELSE LET head == c[c[prev_owner].next].next
                      tail == c[owner_cell].next
                  IN IF head = NULL \/ tail = NULL THEN Ret(lr, LR_ERROR_BUFFER_EMPTY, 0, 1)
                     ELSE IF head = tail
                     THEN IF index = 0
                          THEN IF head \notin DOMAIN c THEN Fault(lr, SEGV)
                          ELSE LET out == c[head].data
                                   c1  == ShiftOwners(c, lr.owners, owner_cell)
                                   c2  == IF prev_owner # owner_cell /\ c1[prev_owner].next # NULL
                                          THEN SetNext(c1, c1[prev_owner].next, c1[tail].next)
                                          ELSE c1
                                   c3  == IF lr.write = NULL THEN c2
                                          ELSE SetNext(c2, lr.owners, lr.write)
                               IN IF prev_owner # owner_cell
                                     /\ c1[prev_owner].next \notin DOMAIN c \cup {NULL}
                                  THEN Fault(lr, SEGV)
                                  ELSE
                                  Ret([lr EXCEPT !.cells  = SetNext(c3, head, lr.owners),
                                                 !.write  = head,
                                                 !.owners = OwnersAfterRelease(lr)],
                                      LR_OK, out, 1)
                          ELSE Ret(lr, LR_ERROR_BUFFER_EMPTY, 0, 1)
                     ELSE IF head \notin DOMAIN c THEN Fault(lr, SEGV)
                     ELSE IF index = 0
                     THEN LET c1 == SetNext(c, c[prev_owner].next, c[head].next)
                              c2 == IF head = tail THEN SetNext(c1, owner_cell, NULL) ELSE c1
                          IN Ret([lr EXCEPT !.cells = SetNext(c2, head, lr.write), !.write = head],
                                 LR_OK, c[head].data, 1)
                     ELSE LET w == PullWalk(c, head, 0, index, tail, head)
                          IN IF w.needle = BAD THEN Fault(lr, SEGV)
                             ELSE IF w.needle_index < index - 1
                                  THEN Ret(lr, LR_ERROR_BUFFER_EMPTY, 0, 1)
                             ELSE LET selected == c[w.needle].next
                                  IN IF selected \notin DOMAIN c THEN Fault(lr, SEGV)
                                     ELSE LET c1 == SetNext(c, w.needle, c[selected].next)
                                              c2 == IF selected = tail
                                                    THEN SetNext(c1, owner_cell, w.needle)
                                                    ELSE c1
                                          IN Ret([lr EXCEPT !.cells = SetNext(c2, selected, lr.write),
                                                            !.write = selected],
                                                 LR_OK, c[selected].data, 1)

\* needle = head; cell_index = 1;
\* while (cell_index != index && needle != tail) { needle = needle->next; cell_index++; }
RECURSIVE InsertWalk(_, _, _, _, _)
InsertWalk(c, needle, cell_index, index, tail) ==
  IF cell_index # index /\ needle # tail
  THEN IF needle \notin DOMAIN c THEN BAD
       ELSE InsertWalk(c, c[needle].next, cell_index + 1, index, tail)
  ELSE needle

TAILCALL == "TAILCALL"   \* lr_insert unlocked and goes on to `return lr_put(...)`

\* lr_insert from lock(lr) to its unlock
\* lr_insert, index > 0: cell->next = needle->next; needle->next = cell
InsertLinked(l1, c2, cell, needle) ==
  Ret([l1 EXCEPT !.cells = SetNext(SetNext(c2, cell, c2[needle].next), needle, cell),
                 !.write = l1.cells[cell].next],
      LR_OK, 0, 1)

\* lr_insert, index > 0, from the cell `needle` where the walk stopped
InsertBehind(l1, c1, owner_cell, tail, cell, needle) ==
  IF needle \notin DOMAIN c1 THEN Fault(l1, SEGV)
  ELSE InsertLinked(l1, IF needle = tail THEN SetNext(c1, owner_cell, cell) ELSE c1,
                    cell, needle)

\* lr_insert, index = 0: prev_owner->next->next = cell, after cell->next = head in c2
InsertFront(l1, c2, prev_owner, cell) ==
  Ret([l1 EXCEPT !.cells = SetNext(c2, c2[prev_owner].next, cell),
                 !.write = l1.cells[cell].next],
      LR_OK, 0, 1)

\* lr_insert from `cell = lr->write` on
InsertCell(l1, owner_cell, prev_owner, head, tail, cell, data, index) ==
  IF tail = NULL THEN Ret(l1, TAILCALL, 0, 1)
  ELSE IF cell \notin DOMAIN l1.cells THEN Fault(l1, SEGV)
  ELSE IF index = 0
       THEN InsertFront(l1, SetNext(SetData(l1.cells, cell, data), cell, head),
                        prev_owner, cell)
       ELSE InsertBehind(l1, SetData(l1.cells, cell, data), owner_cell, tail, cell,
                         InsertWalk(SetData(l1.cells, cell, data), head, 1, index, tail))

\* lr_insert from the neighbour record `prev_owner` where the scan stopped
InsertFrom(l1, owner_cell, prev_owner, data, index) ==
  IF prev_owner = BAD THEN Fault(l1, SEGV)
  ELSE IF l1.cells[prev_owner].next \notin DOMAIN l1.cells THEN Fault(l1, SEGV)
  ELSE InsertCell(l1, owner_cell, prev_owner,
                  l1.cells[l1.cells[prev_owner].next].next,
                  l1.cells[owner_cell].next, l1.write, data, index)

\* lr_insert after lr_owner_get returned g
InsertOwned(g, data, index) ==
  IF g.err # "" THEN Fault(g.lr, g.err)
  ELSE IF g.cell = NULL THEN Ret(g.lr, LR_ERROR_BUFFER_FULL, 0, 1)
  ELSE InsertFrom(g.lr, g.cell, SkipNull(g.lr.cells, NeighbourOf(g.lr, g.cell)), data, index)

\* lr_insert up to its return or, for an owner without a tail (TAILCALL), up
\* to the unlock before `return lr_put(lr, data, owner)`
lr_insert_locked(lr, data, owner, index) ==
  IF lr.write = NULL THEN Ret(lr, LR_ERROR_BUFFER_FULL, 0, 1)
  ELSE InsertOwned(lr_owner_get(lr, owner), data, index)

\* the return of lr_insert, through lr_put when r is a TAILCALL
InsertReturn(r, data, owner) ==
  IF r.res = TAILCALL
  THEN [lr_put(r.lr, data, owner) EXCEPT !.unl = @ + r.unl]
  ELSE r

\* lr_insert when no other thread runs between its unlock and its lr_put
lr_insert(lr, data, owner, index) ==
  InsertReturn(lr_insert_locked(lr, data, owner, index), data, owner)

lr_owner_head(lr, owner_cell) ==
  LET c     == lr.cells
      lastc == lr_last_cell(lr)
      viaOwners == owner_cell = lastc /\ lr.owners # NULL /\ c[lr.owners].next # NULL
      start == IF owner_cell = lastc THEN lr.owners + 1 ELSE owner_cell + 1
      prev_owner == SkipNullBounded(c, start, lastc)
  IN IF viaOwners
     THEN IF c[lr.owners].next \notin DOMAIN c THEN BAD ELSE c[c[lr.owners].next].next
     ELSE IF prev_owner = BAD THEN BAD
     ELSE IF c[prev_owner].next = NULL THEN NULL
     ELSE IF c[prev_owner].next \notin DOMAIN c THEN BAD
     ELSE c[c[prev_owner].next].next

LR_ERROR_INVALID_INDEX == "LR_ERROR_INVALID_INDEX"

\* while (count < index) { if (needle == tail) return INVALID_INDEX; needle = needle->next; count++; }
RECURSIVE ReadWalk(_, _, _, _, _)
ReadWalk(c, needle, count, index, tail) ==
  IF count < index
  THEN IF needle = tail THEN LOOP
       ELSE IF needle \notin DOMAIN c THEN BAD
       ELSE ReadWalk(c, c[needle].next, count + 1, index, tail)
  ELSE needle

\* lr_read_at as it would be if an index past the tail read the tail
lr_read_at_clamped(lr, owner, index) ==
  LET owner_cell == lr_owner_find(lr, owner)
      c          == lr.cells
  IN IF owner_cell = NULL THEN Ret(lr, LR_ERROR_BUFFER_EMPTY, 0, 1)
     ELSE LET head == lr_owner_head(lr, owner_cell)
              tail == c[owner_cell].next
          IN IF head = BAD THEN Fault(lr, SEGV)
             ELSE IF head = NULL \/ tail = NULL THEN Ret(lr, LR_ERROR_BUFFER_EMPTY, 0, 1)
             ELSE LET needle == ReadWalk(c, head, 0, index, tail)
                  IN IF needle = LOOP THEN Ret(lr, LR_OK, c[tail].data, 1)
                     ELSE IF needle \notin DOMAIN c THEN Fault(lr, SEGV)
                     ELSE Ret(lr, LR_OK, c[needle].data, 1)

lr_read_at(lr, owner, index) ==
  LET owner_cell == lr_owner_find(lr, owner)
      c          == lr.cells
  IN IF owner_cell = NULL THEN Ret(lr, LR_ERROR_BUFFER_EMPTY, 0, 1)
     ELSE LET head == lr_owner_head(lr, owner_cell)
              tail == c[owner_cell].next
          IN IF head = BAD THEN Fault(lr, SEGV)
             ELSE IF head = NULL \/ tail = NULL THEN Ret(lr, LR_ERROR_BUFFER_EMPTY, 0, 1)
             ELSE LET needle == ReadWalk(c, head, 0, index, tail)
                  IN IF needle = LOOP THEN Ret(lr, LR_ERROR_INVALID_INDEX, 0, 1)
                     ELSE IF needle \notin DOMAIN c THEN Fault(lr, SEGV)
                     ELSE Ret(lr, LR_OK, c[needle].data, 1)

\* lr_read as it would be if it took the element out
lr_read_taking(lr, owner) == lr_get(lr, owner)

lr_read(lr, owner) == lr_read_at(lr, owner, 0)

\* do { *data++ = needle->data; needle = needle->next; *length += 1; } while (needle != tail->next);
RECURSIVE ReadBytes(_, _, _, _)
ReadBytes(c, needle, stop, fuel) ==
  IF needle \notin DOMAIN c THEN [str |-> <<>>, err |-> SEGV]
  ELSE IF fuel = 0 THEN [str |-> <<>>, err |-> HANG]
  ELSE IF c[needle].next = stop THEN [str |-> <<c[needle].data % 256>>, err |-> ""]
  ELSE LET rest == ReadBytes(c, c[needle].next, stop, fuel - 1)
       IN [str |-> <<c[needle].data % 256>> \o rest.str, err |-> rest.err]

\* out is *length, str the bytes stored before the terminating zero
lr_read_string(lr, owner) ==
  LET owner_cell == lr_owner_find(lr, owner)
      c          == lr.cells
  IN IF owner_cell = NULL THEN [Ret(lr, LR_ERROR_BUFFER_EMPTY, 0, 1) EXCEPT !.str = <<>>]
     ELSE LET needle == lr_owner_head(lr, owner_cell)
              tail   == c[owner_cell].next
          IN IF needle = BAD \/ tail \notin DOMAIN c THEN [Fault(lr, SEGV) EXCEPT !.str = <<>>]
             ELSE IF needle = tail /\ c[tail].data = 0
                  THEN [Ret(lr, LR_OK, 0, 1) EXCEPT !.str = <<>>]
             ELSE LET b == ReadBytes(c, needle, c[tail].next, lr.size)
                  IN IF b.err # "" THEN [Fault(lr, b.err) EXCEPT !.str = <<>>]
                     ELSE [Ret(lr, LR_OK, Len(b.str), 1) EXCEPT !.str = b.str]

\* needle = head; length = 1;
\* while (needle != tail && (limit == 0 || length < limit)) { needle = needle->next; length += 1; }
RECURSIVE CountWalk(_, _, _, _, _, _)
CountWalk(c, needle, tail, limit, length, fuel) ==
  IF needle # tail /\ (limit = 0 \/ length < limit)
  THEN IF needle \notin DOMAIN c THEN BAD
       ELSE IF fuel = 0 THEN LOOP
       ELSE CountWalk(c, c[needle].next, tail, limit, length + 1, fuel - 1)
  ELSE length

\* out is the size_t the function returns
lr_count_limited_owned(lr, limit, owner) ==
  LET owner_cell == lr_owner_find(lr, owner)
  IN IF owner_cell = NULL THEN Ret(lr, LR_OK, 0, 1)
     ELSE LET head   == lr_owner_head(lr, owner_cell)
              length == CountWalk(lr.cells, head, lr.cells[owner_cell].next, limit, 1, lr.size)
          IN IF head = BAD \/ length \in {BAD, LOOP} THEN Fault(lr, ScanErr(length))
             ELSE Ret(lr, LR_OK, length, 1)

lr_exists(lr, owner) == lr_count_limited_owned(lr, 1, owner)

lr_count_owned(lr, owner) == lr_count_limited_owned(lr, 0, owner)

\* length = 1; needle = head; while (needle->next != head) { needle = needle->next; length += 1; }
RECURSIVE RingLength(_, _, _, _, _)
RingLength(c, needle, head, length, fuel) ==
  IF needle \notin DOMAIN c THEN BAD
  ELSE IF c[needle].next # head
       THEN IF fuel = 0 THEN LOOP
            ELSE RingLength(c, c[needle].next, head, length + 1, fuel - 1)
       ELSE length

lr_count(lr) ==
  IF lr.owners = NULL THEN Ret(lr, LR_OK, 0, 1)
  ELSE LET owner_cell == SkipNull(lr.cells, lr.owners)
       IN IF owner_cell = BAD THEN Fault(lr, SEGV)
          ELSE IF lr.cells[owner_cell].next \notin DOMAIN lr.cells THEN Fault(lr, SEGV)
          ELSE LET head   == lr.cells[lr.cells[owner_cell].next].next
                   length == RingLength(lr.cells, head, head, 1, lr.size)
               IN IF length \in {BAD, LOOP} THEN Fault(lr, ScanErr(length))
                  ELSE Ret(lr, LR_OK, length, 1)

\* ---- what an observer sees of an arena ----

BROKEN == <<-1>>   \* a chain that leaves the array or does not end

\* the cells from `needle` along next up to and including `stop`
RECURSIVE ChainTo(_, _, _, _)
ChainTo(c, needle, stop, fuel) ==
  IF needle \notin DOMAIN c \/ fuel = 0 THEN BROKEN
  ELSE IF needle = stop THEN <<needle>>
  ELSE LET rest == ChainTo(c, c[needle].next, stop, fuel - 1)
       IN IF rest = BROKEN THEN BROKEN ELSE <<needle>> \o rest

\* the cells of an owner record's sub-list, head first, tail last
OwnerCells(lr, owner_cell) ==
  LET head == lr_owner_head(lr, owner_cell)
  IN ChainTo(lr.cells, head, lr.cells[owner_cell].next, lr.size)

\* the values an owner id holds, head first; empty without a record
OwnerSeq(lr, owner) ==
  LET owner_cell == lr_owner_find(lr, owner)
  IN IF owner_cell = NULL THEN <<>>
     ELSE LET ch == OwnerCells(lr, owner_cell)
          IN IF ch = BROKEN THEN BROKEN
             ELSE [k \in 1..Len(ch) |-> lr.cells[ch[k]].data]

\* the cells on the free list, from write to the cell whose next is null
RECURSIVE FreeChain(_, _, _)
FreeChain(c, needle, fuel) ==
  IF needle = NULL THEN <<>>
  ELSE IF needle \notin DOMAIN c \/ fuel = 0 THEN BROKEN
  ELSE LET rest == FreeChain(c, c[needle].next, fuel - 1)
       IN IF rest = BROKEN THEN BROKEN ELSE <<needle>> \o rest

FreeCells(lr) == FreeChain(lr.cells, lr.write, lr.size)

Range(f) == {f[k] : k \in DOMAIN f}

OwnerRecords(lr) == IF lr.owners = NULL THEN {} ELSE lr.owners .. (lr.size - 1)

\* the cells that lie in some owner's sub-list
DataCells(lr) == UNION {Range(OwnerCells(lr, r)) : r \in OwnerRecords(lr)}

RECURSIVE SumLen(_, _)
SumLen(lr, recs) ==
  IF recs = {} THEN 0
  ELSE LET r == CHOOSE x \in recs : TRUE
       IN Len(OwnerCells(lr, r)) + SumLen(lr, recs \ {r})

DataCount(lr) == SumLen(lr, OwnerRecords(lr))

\* ---- the program ----

\* lr_init on a zero-filled array (calloc, as test/edge.c:72 and
\* test/multi_thread.c:154 allocate it): the loop links cells[0..size-2] and
\* leaves cells[size-1].next as the caller left it.
InitCells(n) == [i \in 0..n-1 |-> [data |-> 0, next |-> IF i < n - 1 THEN i + 1 ELSE NULL]]

NoCall == [op |-> "init", owner |-> 0, data |-> 0, index |-> 0, res |-> LR_OK, out |-> 0,
           str |-> <<>>]

Init ==
  /\ size \in Sizes
  /\ cells = InitCells(size)
  /\ write = 0
  /\ owners = NULL
  /\ bound = FALSE
  /\ mtx = 0
  /\ pc = [t \in Threads |-> "idle"]
  /\ arg = [t \in Threads |-> <<0, 0>>]
  /\ calls = [t \in Threads |-> 0]
  /\ last = NoCall

Faulted == last.res \in {SEGV, HANG}

\* lr_set_mutex was given a lock function and NULL for unlock
UnlockNull == bound /\ pc[2] = "no_unlock"

\* #define unlock(lr) if (lr->lock != NULL) { lr->unlock(lr->mutex_state); }
\* the call r dies in its first unlock when lr->unlock is NULL
Unlocked(r) ==
  IF UnlockNull /\ r.unl >= 1 THEN Fault(r.lr, SEGV) ELSE r

\* the caller's view of a call that ran to the result r
ReturnedAs(op, owner, data, index, r) ==
  /\ cells'  = r.lr.cells
  /\ size'   = r.lr.size
  /\ write'  = r.lr.write
  /\ owners' = r.lr.owners
  /\ last'   = [op |-> op, owner |-> owner, data |-> data, index |-> index,
                res |-> r.res, out |-> r.out, str |-> r.str]
  /\ calls'  = [calls EXCEPT ![1] = @ + 1]

\* the caller's view of a call that returned (or died) with result r
Returned(op, owner, data, index, r) == ReturnedAs(op, owner, data, index, Unlocked(r))

Put ==
  /\ ~Faulted /\ calls[1] < MaxSeqCalls
  /\ \E d \in Data, o \in OwnerId : Returned("put", o, d, 0, lr_put(Arena, d, o))
  /\ UNCHANGED <<bound, mtx, pc, arg>>

Push ==
  /\ ~Faulted /\ calls[1] < MaxSeqCalls
  /\ \E d \in Data, o \in OwnerId : Returned("push", o, d, 0, lr_push(Arena, d, o))
  /\ UNCHANGED <<bound, mtx, pc, arg>>

Insert ==
  /\ ~Faulted /\ calls[1] < MaxSeqCalls
  /\ \E d \in Data, o \in OwnerId, k \in Index :
        Returned("insert", o, d, k,
                 IF UnlockNull THEN lr_insert_locked(Arena, d, o, k)
                 ELSE lr_insert(Arena, d, o, k))
  /\ UNCHANGED <<bound, mtx, pc, arg>>

Get ==
  /\ ~Faulted /\ calls[1] < MaxSeqCalls
  /\ \E o \in OwnerId : Returned("get", o, 0, 0, lr_get(Arena, o))
  /\ UNCHANGED <<bound, mtx, pc, arg>>

Pop ==
  /\ ~Faulted /\ calls[1] < MaxSeqCalls
  /\ \E o \in OwnerId : Returned("pop", o, 0, 0, lr_pop(Arena, o))
  /\ UNCHANGED <<bound, mtx, pc, arg>>

Pull ==
  /\ ~Faulted /\ calls[1] < MaxSeqCalls
  /\ \E o \in OwnerId, k \in Index : Returned("pull", o, 0, k, lr_pull(Arena, o, k))
  /\ UNCHANGED <<bound, mtx, pc, arg>>

Read ==
  /\ ~Faulted /\ calls[1] < MaxSeqCalls
  /\ \E o \in OwnerId : Returned("read", o, 0, 0, lr_read(Arena, o))
  /\ UNCHANGED <<bound, mtx, pc, arg>>

ReadAt ==
  /\ ~Faulted /\ calls[1] < MaxSeqCalls
  /\ \E o \in OwnerId, k \in Index : Returned("read_at", o, 0, k, lr_read_at(Arena, o, k))
  /\ UNCHANGED <<bound, mtx, pc, arg>>

ReadString ==
  /\ ~Faulted /\ calls[1] < MaxSeqCalls
  /\ \E o \in OwnerId : Returned("read_string", o, 0, 0, lr_read_string(Arena, o))
  /\ UNCHANGED <<bound, mtx, pc, arg>>

Next == Put \/ Push \/ Insert \/ Get \/ Pop \/ Pull \/ Read \/ ReadAt \/ ReadString

Spec == Init /\ [][Next]_vars

\* ---- the program with a mutex bound and two caller threads ----

\* lr_init, then lr_set_mutex with a lock/unlock pair over one mutex
InitMT ==
  /\ size \in Sizes
  /\ cells = InitCells(size)
  /\ write = 0
  /\ owners = NULL
  /\ bound = TRUE
  /\ mtx = 0
  /\ pc = [t \in Threads |-> "idle"]
  /\ arg = [t \in Threads |-> <<0, 0>>]
  /\ calls = [t \in Threads |-> 0]
  /\ last = NoCall

\* thread t got the mutex in lock(lr) and ran to its return with result r, or
\* (lr_insert, r.res = TAILCALL) to the unlock before `return lr_put(...)`.
\* The mutex stays with t when the path ran no unlock.
Section(t, op, owner, data, index, r) ==
  /\ ~Faulted
  /\ mtx = 0
  /\ cells'  = r.lr.cells
  /\ size'   = r.lr.size
  /\ write'  = r.lr.write
  /\ owners' = r.lr.owners
  /\ mtx'    = IF bound /\ r.unl = 0 THEN t ELSE 0
  /\ pc'     = [pc EXCEPT ![t] = IF r.res = TAILCALL THEN "insert_put" ELSE "idle"]
  /\ arg'    = [arg EXCEPT ![t] = IF r.res = TAILCALL THEN <<data, owner>> ELSE <<0, 0>>]
  /\ last'   = IF r.res = TAILCALL THEN last
               ELSE [op |-> op, owner |-> owner, data |-> data, index |-> index,
                     res |-> r.res, out |-> r.out, str |-> r.str]
  /\ calls' = IF pc[t] = "idle" THEN [calls EXCEPT ![t] = @ + 1] ELSE calls
  /\ UNCHANGED bound

MTPut(t) ==
  /\ pc[t] = "idle" /\ calls[t] < MaxCalls
  /\ \E d \in Data, o \in OwnerId : Section(t, "put", o, d, 0, lr_put(Arena, d, o))

MTPush(t) ==
  /\ pc[t] = "idle" /\ calls[t] < MaxCalls
  /\ \E d \in Data, o \in OwnerId : Section(t, "push", o, d, 0, lr_push(Arena, d, o))

MTInsert(t) ==
  /\ pc[t] = "idle" /\ calls[t] < MaxCalls
  /\ \E d \in Data, o \in OwnerId, k \in Index :
        Section(t, "insert", o, d, k, lr_insert_locked(Arena, d, o, k))

\* the lr_put that lr_insert returns through
MTInsertPut(t) ==
  /\ pc[t] = "insert_put"
  /\ Section(t, "insert", arg[t][2], arg[t][1], 0, lr_put(Arena, arg[t][1], arg[t][2]))

MTGet(t) ==
  /\ pc[t] = "idle" /\ calls[t] < MaxCalls
  /\ \E o \in OwnerId : Section(t, "get", o, 0, 0, lr_get(Arena, o))

MTPop(t) ==
  /\ pc[t] = "idle" /\ calls[t] < MaxCalls
  /\ \E o \in OwnerId : Section(t, "pop", o, 0, 0, lr_pop(Arena, o))

MTPull(t) ==
  /\ pc[t] = "idle" /\ calls[t] < MaxCalls
  /\ \E o \in OwnerId, k \in Index : Section(t, "pull", o, 0, k, lr_pull(Arena, o, k))

NextMT ==
  \E t \in Threads :
    MTPut(t) \/ MTPush(t) \/ MTInsert(t) \/ MTInsertPut(t) \/ MTGet(t) \/ MTPop(t) \/ MTPull(t)

SpecMT == InitMT /\ [][NextMT]_vars

\* ---- the claims ----

ArenaNext == [cells |-> cells', size |-> size', write |-> write', owners |-> owners']

Insertions == {"put", "push", "insert"}
Removals   == {"get", "pop", "pull"}
Peeks      == {"read", "read_at", "read_string"}

\* the call returned (it did not die in an invalid access or an endless loop)
Completed(res) == res \notin {SEGV, HANG}

\* every chain an observer follows ends where it must
WellFormed(lr) ==
  /\ FreeCells(lr) # BROKEN
  /\ \A r \in OwnerRecords(lr) : OwnerCells(lr, r) # BROKEN

HasRecord(lr, owner) == lr_owner_find(lr, owner) # NULL

\* C1: after any sequence of lr_put, lr_push, lr_insert, lr_get, lr_pop and
\* lr_pull calls the owner records, the data cells of all sub-lists and the
\* cells on the free list reachable from write add up to size.
C1_CellsAddUpToSize ==
  ~Faulted =>
    /\ WellFormed(Arena)
    /\ lr_owners_count(Arena) + DataCount(Arena) + Len(FreeCells(Arena)) = size

\* C2: the free list reachable from write is acyclic and null-terminated and
\* shares no cell with a sub-list or the registry, so the cell an insertion
\* would take (write) belongs to no owner and is no owner record.
C2_FreeListDisjoint ==
  ~Faulted =>
    /\ FreeCells(Arena) # BROKEN
    /\ Range(FreeCells(Arena)) \cap (DataCells(Arena) \cup OwnerRecords(Arena)) = {}
    /\ Cardinality(Range(FreeCells(Arena))) = Len(FreeCells(Arena))

\* C3: per owner the values come out of lr_get in the order lr_put put them in:
\* a successful lr_put appends its value behind the owner's values, a
\* successful lr_get returns and removes the first of them, and a call on
\* another owner leaves them alone.
C3_GetReturnsPutOrder ==
  [][ /\ (last'.op = "put" /\ last'.res = LR_OK) =>
           OwnerSeq(ArenaNext, last'.owner) = Append(OwnerSeq(Arena, last'.owner), last'.data)
      /\ (last'.op = "get" /\ last'.res = LR_OK) =>
           /\ OwnerSeq(Arena, last'.owner) \notin {<<>>, BROKEN}
           /\ last'.out = Head(OwnerSeq(Arena, last'.owner))
           /\ OwnerSeq(ArenaNext, last'.owner) = Tail(OwnerSeq(Arena, last'.owner))
      /\ (last'.op \in {"put", "get"} /\ Completed(last'.res)) =>
           \A b \in OwnerId \ {last'.owner} :
              OwnerSeq(ArenaNext, b) # BROKEN /\ OwnerSeq(ArenaNext, b) = OwnerSeq(Arena, b)
    ]_vars

\* C4: a call on owner A, whatever it returns, leaves the head-to-tail value
\* sequence of every other owner B as it was.
C4_OtherOwnersUntouched ==
  [][ (last'.op \in Insertions \cup Removals /\ Completed(last'.res)) =>
        \A b \in OwnerId \ {last'.owner} : OwnerSeq(ArenaNext, b) = OwnerSeq(Arena, b)
    ]_vars

\* C5: an owner id has a record exactly when it holds an element: every record
\* has a tail and a sub-list, the first successful insertion for an id adds one
\* record, and the removal of its last element removes the record, after which
\* lr_exists is 0 and lr_get, lr_pop and lr_pull return BufferEmpty.
C5_RecordIffElements ==
  [][ Completed(last'.res) =>
      /\ \A r \in OwnerRecords(ArenaNext) :
            cells'[r].next # NULL /\ OwnerCells(ArenaNext, r) # BROKEN
      /\ (last'.op \in Insertions /\ last'.res = LR_OK /\ ~HasRecord(Arena, last'.owner)) =>
            /\ lr_owners_count(ArenaNext) = lr_owners_count(Arena) + 1
            /\ HasRecord(ArenaNext, last'.owner)
      /\ (last'.op \in Removals /\ last'.res = LR_OK /\ Len(OwnerSeq(Arena, last'.owner)) = 1) =>
            /\ lr_owners_count(ArenaNext) = lr_owners_count(Arena) - 1
            /\ lr_exists(ArenaNext, last'.owner).out = 0
            /\ lr_get(ArenaNext, last'.owner).res = LR_ERROR_BUFFER_EMPTY
            /\ lr_pop(ArenaNext, last'.owner).res = LR_ERROR_BUFFER_EMPTY
            /\ lr_pull(ArenaNext, last'.owner, 0).res = LR_ERROR_BUFFER_EMPTY
    ]_vars

Unowned(lr) == (0 .. lr.size - 1) \ (DataCells(lr) \cup OwnerRecords(lr))

\* C7: lr_put and lr_push for an owner id without a record return BufferFull
\* and change nothing when fewer than two cells are free (one for the record,
\* one for the datum), and otherwise succeed and take exactly two free cells.
\* A cell is free when no sub-list and no owner record holds it.
C7_NewOwnerCostsTwoCells ==
  ~Faulted =>
    \A o \in OwnerId, d \in Data :
      ~HasRecord(Arena, o) =>
        \A r \in {lr_put(Arena, d, o), lr_push(Arena, d, o)} :
          Completed(r.res) =>
            IF Cardinality(Unowned(Arena)) < 2
            THEN r.res = LR_ERROR_BUFFER_FULL /\ r.lr = Arena
            ELSE /\ r.res = LR_OK
                 /\ Cardinality(Unowned(r.lr)) = Cardinality(Unowned(Arena)) - 2
                 /\ lr_owners_count(r.lr) = lr_owners_count(Arena) + 1

C9_MutexFreeAfterReturn ==
  ~Faulted => \A t \in Threads : pc[t] = "idle" => mtx # t

\* C10: whenever no thread holds the mutex every owner record has a tail, and
\* an lr_insert that returned an error left no record without elements for
\* its owner.
C10_NoEmptyRecordUnlocked ==
  (mtx = 0 /\ ~Faulted) =>
    /\ \A r \in OwnerRecords(Arena) : cells[r].next # NULL
    /\ (last.op = "insert" /\ last.res # LR_OK) =>
          (HasRecord(Arena, last.owner) => OwnerSeq(Arena, last.owner) \notin {<<>>, BROKEN})

\* ---- the program with a lock function that can fail ----

MaxLockCalls == 4   \* calls of the single caller under SpecLF

LR_ERROR_LOCK == "LR_ERROR_LOCK"

\* what the bound lock function returns (bare_metal_lock: LR_ERROR_LOCK when
\* the mutex is taken)
LockResults == {LR_OK, LR_ERROR_LOCK}

\* lock(lr) in front of a call body r: the call returns ret at once when a lock
\* function is bound and returns ret other than LR_OK
Locked(lr, isbound, ret, r) ==
  IF isbound /\ ret # LR_OK THEN Ret(lr, ret, 0, 0) ELSE r

\* the return of lr_insert through lr_put, whose lock(lr) returns ret2
InsertReturnLocked(r, isbound, ret2, data, owner) ==
  IF r.res = TAILCALL
  THEN [Locked(r.lr, isbound, ret2, lr_put(r.lr, data, owner)) EXCEPT !.unl = @ + r.unl]
  ELSE r

\* lr_insert with the results ret1, ret2 of its two lock(lr)
lr_insert_lockable(lr, isbound, ret1, ret2, data, owner, index) ==
  InsertReturnLocked(Locked(lr, isbound, ret1, lr_insert_locked(lr, data, owner, index)),
                     isbound, ret2, data, owner)

\* the caller's view of a call that returned with result r; lock is what the
\* failing lock(lr) returned (LR_OK when none failed), unl the unlock() calls
ReturnedLF(op, owner, data, index, lock, r) ==
  /\ cells'  = r.lr.cells
  /\ size'   = r.lr.size
  /\ write'  = r.lr.write
  /\ owners' = r.lr.owners
  /\ last'   = [op |-> op, owner |-> owner, data |-> data, index |-> index,
                res |-> r.res, out |-> r.out, str |-> r.str,
                lock |-> lock, unl |-> r.unl]
  /\ calls'  = [calls EXCEPT ![1] = @ + 1]
  /\ UNCHANGED <<bound, mtx, pc, arg>>

LFPut ==
  /\ ~Faulted /\ calls[1] < MaxLockCalls
  /\ \E d \in Data, o \in OwnerId, ret \in LockResults :
        ReturnedLF("put", o, d, 0, ret, Locked(Arena, bound, ret, lr_put(Arena, d, o)))

LFPush ==
  /\ ~Faulted /\ calls[1] < MaxLockCalls
  /\ \E d \in Data, o \in OwnerId, ret \in LockResults :
        ReturnedLF("push", o, d, 0, ret, Locked(Arena, bound, ret, lr_push(Arena, d, o)))

LFInsert ==
  /\ ~Faulted /\ calls[1] < MaxLockCalls
  /\ \E d \in Data, o \in OwnerId, k \in Index, ret1 \in LockResults, ret2 \in LockResults :
        ReturnedLF("insert", o, d, k,
                   IF ret1 # LR_OK THEN ret1
                   ELSE IF lr_insert_locked(Arena, d, o, k).res = TAILCALL THEN ret2
                   ELSE LR_OK,
                   lr_insert_lockable(Arena, bound, ret1, ret2, d, o, k))

LFGet ==
  /\ ~Faulted /\ calls[1] < MaxLockCalls
  /\ \E o \in OwnerId, ret \in LockResults :
        ReturnedLF("get", o, 0, 0, ret, Locked(Arena, bound, ret, lr_get(Arena, o)))

LFPop ==
  /\ ~Faulted /\ calls[1] < MaxLockCalls
  /\ \E o \in OwnerId, ret \in LockResults :
        ReturnedLF("pop", o, 0, 0, ret, Locked(Arena, bound, ret, lr_pop(Arena, o)))

LFPull ==
  /\ ~Faulted /\ calls[1] < MaxLockCalls
  /\ \E o \in OwnerId, k \in Index, ret \in LockResults :
        ReturnedLF("pull", o, 0, k, ret, Locked(Arena, bound, ret, lr_pull(Arena, o, k)))

LFReadAt ==
  /\ ~Faulted /\ calls[1] < MaxLockCalls
  /\ \E o \in OwnerId, k \in Index, ret \in LockResults :
        ReturnedLF("read_at", o, 0, k, ret, Locked(Arena, bound, ret, lr_read_at(Arena, o, k)))

LFReadString ==
  /\ ~Faulted /\ calls[1] < MaxLockCalls
  /\ \E o \in OwnerId, ret \in LockResults :
        ReturnedLF("read_string", o, 0, 0, ret,
                   Locked(Arena, bound, ret, lr_read_string(Arena, o)))

NextLF ==
  LFPut \/ LFPush \/ LFInsert \/ LFGet \/ LFPop \/ LFPull \/ LFReadAt \/ LFReadString

SpecLF == InitMT /\ [][NextLF]_vars

\* C11: when the bound lock function returns a value other than LR_OK the call
\* returns that value with cells, write and owners as they were before the
\* call and without having called unlock.
C11_LockFailureTouchesNothing ==
  [][ last'.lock # LR_OK =>
        /\ last'.res = last'.lock
        /\ ArenaNext = Arena
        /\ last'.unl = 0
    ]_vars

\* ---- threads that each work on an owner id of their own ----

MaxRounds == 3   \* store/take rounds per thread under SpecOwn

\* the buffer shared by the threads has room for every thread's owner record
\* and one element
InitOwn ==
  /\ InitMT
  /\ size >= 2 * Cardinality(Threads)

\* thread t got the mutex in lock(lr) and ran op on its own owner id to the
\* return with result r; it goes on at pc to; want is the value it stored
OwnSection(t, op, want, r, to) ==
  /\ ~Faulted
  /\ mtx = 0
  /\ cells'  = r.lr.cells
  /\ size'   = r.lr.size
  /\ write'  = r.lr.write
  /\ owners' = r.lr.owners
  /\ mtx'    = IF bound /\ r.unl = 0 THEN t ELSE 0
  /\ pc'     = [pc EXCEPT ![t] = IF r.res = LR_OK THEN to ELSE "idle"]
  /\ arg'    = [arg EXCEPT ![t] = IF r.res = LR_OK /\ to # "idle" THEN <<want, t>> ELSE <<0, 0>>]
  /\ last'   = [op |-> op, owner |-> t, data |-> want, index |-> 0,
                res |-> r.res, out |-> r.out, str |-> r.str]
  /\ UNCHANGED bound

\* put_get_data, data_integrity_test: result = lr_put(&buffer, data, owner)
OwnPut(t) ==
  /\ pc[t] = "idle" /\ calls[t] < MaxRounds
  /\ \E d \in Data : OwnSection(t, "put", d, lr_put(Arena, d, t), "put_done")
  /\ calls' = [calls EXCEPT ![t] = @ + 1]

\* put_get_data, data_integrity_test: result = lr_get(&buffer, &read, owner)
OwnGet(t) ==
  /\ pc[t] = "put_done"
  /\ OwnSection(t, "get", arg[t][1], lr_get(Arena, t), "idle")
  /\ UNCHANGED calls

\* push_pop_data: result = lr_push(&buffer, data, owner)
OwnPush(t) ==
  /\ pc[t] = "idle" /\ calls[t] < MaxRounds
  /\ \E d \in Data : OwnSection(t, "push", d, lr_push(Arena, d, t), "push_done")
  /\ calls' = [calls EXCEPT ![t] = @ + 1]

\* push_pop_data: result = lr_pop(&buffer, &read, owner)
OwnPop(t) ==
  /\ pc[t] = "push_done"
  /\ OwnSection(t, "pop", arg[t][1], lr_pop(Arena, t), "idle")
  /\ UNCHANGED calls

NextOwn ==
  \E t \in Threads : OwnPut(t) \/ OwnGet(t) \/ OwnPush(t) \/ OwnPop(t)

SpecOwn == InitOwn /\ [][NextOwn]_vars

\* C12: with the mutex bound, every thread on an owner id of its own and an
\* arena of at least two cells per thread, a thread's lr_put(d) succeeds and
\* its following lr_get returns LR_OK and exactly d, and likewise lr_push(d)
\* followed by lr_pop, whatever the other threads do in between.
C12_OwnDataComesBack ==
  [][ /\ last'.op \in {"put", "push"} => last'.res = LR_OK
      /\ last'.op \in {"get", "pop"}  => last'.res = LR_OK /\ last'.out = last'.data
    ]_vars

\* a thread took its value back while the other thread's value was stored
C12_Witness ==
  /\ last.op \in {"get", "pop"}
  /\ last.res = LR_OK
  /\ last.out = last.data
  /\ \E u \in Threads : u # last.owner /\ pc[u] \in {"put_done", "push_done"} /\ arg[u][1] # last.out

\* ---- lr_resize ----

MaxResizes == 1   \* calls of lr_resize under SpecRS (counted in calls[2])

\* a non-null pointer that refers into neither array: cells + (NULL - lr->cells),
\* cells + i for i past the new array, or what an uninitialised cell holds
WILD == -4

\* what malloc left in the next field of a cell of the new array
Fills == {NULL, WILD}

\* cells + (size_t)(next - lr->cells)
Rebased(next, new_size) == IF next \in 0 .. (new_size - 1) THEN next ELSE WILD

\* the new array after the two copy loops: the first data_nr cells of the old
\* array, then the owner records at the end of the new one
ResizeCopy(lr, new_size, fill, data_nr, owner_nr) ==
  [i \in 0 .. (new_size - 1) |->
     IF i >= new_size - owner_nr
     THEN [data |-> lr.cells[lr.owners + (i - (new_size - owner_nr))].data,
           next |-> Rebased(lr.cells[lr.owners + (i - (new_size - owner_nr))].next, new_size)]
     ELSE IF i < data_nr
          THEN [data |-> lr.cells[i].data, next |-> Rebased(lr.cells[i].next, new_size)]
          ELSE [data |-> 0, next |-> fill]]

\* for (lr_needle = data_needle; lr_needle < lr->owners; lr_needle++)
ResizeRelink(c, data_needle, owner_cell) ==
  [i \in DOMAIN c |->
     IF owner_cell # NULL /\ i >= data_needle /\ i < owner_cell
     THEN [c[i] EXCEPT !.next = IF i = owner_cell - 1 THEN NULL ELSE i + 1]
     ELSE c[i]]

ResizeInto(lr, new_size, fill, data_nr, owner_nr) ==
  IF data_nr = 0 \/ data_nr > new_size \/ owner_nr > new_size THEN Fault(lr, SEGV)
  ELSE Ret([cells  |-> ResizeRelink(ResizeCopy(lr, new_size, fill, data_nr, owner_nr),
                                    data_nr - 1,
                                    IF owner_nr > 0 THEN new_size - owner_nr ELSE NULL),
            size   |-> new_size,
            write  |-> data_nr - 1,
            owners |-> IF owner_nr > 0 THEN new_size - owner_nr ELSE NULL],
           LR_OK, 0, 0)

\* given: cells != NULL, a fresh array of new_size cells
lr_resize(lr, new_size, given, fill) ==
  IF ~given \/ new_size = 0 THEN Ret(lr, LR_ERROR_NOMEMORY, 0, 0)
  ELSE ResizeInto(lr, new_size, fill, lr.size - lr_owners_count(lr), lr_owners_count(lr))

\* the caller's view of an lr_resize that returned with result r
Resized(new_size, r) ==
  /\ cells'  = r.lr.cells
  /\ size'   = r.lr.size
  /\ write'  = r.lr.write
  /\ owners' = r.lr.owners
  /\ last'   = [op |-> "resize", owner |-> 0, data |-> 0, index |-> new_size,
                res |-> r.res, out |-> r.out, str |-> r.str]
  /\ calls'  = [calls EXCEPT ![1] = @ + 1, ![2] = @ + 1]

Resize ==
  /\ ~Faulted /\ calls[1] < MaxSeqCalls /\ calls[2] < MaxResizes
  /\ \E n \in 0 .. MaxSize, given \in BOOLEAN, fill \in Fills :
        Resized(n, lr_resize(Arena, n, given, fill))
  /\ UNCHANGED <<bound, mtx, pc, arg>>

NextRS ==
  Put \/ Push \/ Insert \/ Get \/ Pop \/ Pull \/ Read \/ ReadAt \/ ReadString \/ Resize

SpecRS == Init /\ [][NextRS]_vars

\* an lr_resize to new_size cells has just returned LR_OK from a well-formed
\* arena whose elements and owner records fit into the new array
ResizedOK ==
  /\ last'.op = "resize"
  /\ last'.res = LR_OK
  /\ WellFormed(Arena)
  /\ last'.index >= DataCount(Arena) + lr_owners_count(Arena)

\* C13: a successful lr_resize to at least data_count + owner_count cells
\* leaves the set of owner ids and every owner's head-to-tail sequence of
\* values unchanged.
C13_ResizeKeepsSequences ==
  [][ ResizedOK =>
        \A o \in OwnerId :
          /\ HasRecord(ArenaNext, o) = HasRecord(Arena, o)
          /\ OwnerSeq(ArenaNext, o) = OwnerSeq(Arena, o)
    ]_vars

\* C14: after a successful lr_resize the free list from write ends in null,
\* holds no live data cell and no owner record, and has exactly
\* new_size - data_count - owner_count cells.
C14_ResizeFreeList ==
  [][ ResizedOK =>
        /\ FreeCells(ArenaNext) # BROKEN
        /\ Range(FreeCells(ArenaNext)) \cap (DataCells(ArenaNext) \cup OwnerRecords(ArenaNext)) = {}
        /\ Len(FreeCells(ArenaNext)) = size' - DataCount(Arena) - lr_owners_count(Arena)
    ]_vars

\* the pointers reachable from the given ones along next
RECURSIVE ReachFrom(_, _, _)
ReachFrom(c, frontier, seen) ==
  LET new == {c[i].next : i \in frontier \cap DOMAIN c} \ seen
  IN IF new = {} THEN seen ELSE ReachFrom(c, new, seen \cup new)

\* write, owners, the owner records and every next pointer reachable from them
Pointers(lr) ==
  ReachFrom(lr.cells, {lr.write, lr.owners} \cup OwnerRecords(lr),
            {lr.write, lr.owners} \cup OwnerRecords(lr))

\* C15: an lr_resize to at least data_count + owner_count cells, smaller than
\* the old size or not, makes no access outside the new array, and afterwards
\* write, owners and every next pointer reachable from them are null or refer
\* to a cell of the new array.
C15_ResizeStaysInside ==
  [][ (/\ last'.op = "resize"
       /\ WellFormed(Arena)
       /\ last'.index >= DataCount(Arena) + lr_owners_count(Arena))
      => /\ last'.res # SEGV
         /\ last'.res = LR_OK => Pointers(ArenaNext) \subseteq (0 .. size' - 1) \cup {NULL}
    ]_vars

\* the result, the value and the owner's sequence are those of r
SameOutcome(r, q, o) ==
  /\ r.res = q.res
  /\ r.out = q.out
  /\ OwnerSeq(r.lr, o) = OwnerSeq(q.lr, o)

\* C16: after a resize into a fresh array of the same size every operation
\* returns what it returns on the arena that was not resized and leaves the
\* same sequence for its owner (here for the first lr_put or lr_get after it).
C16_SameSizeResizeInvisible ==
  [][ (ResizedOK /\ last'.index = size) =>
        \A o \in OwnerId :
          /\ SameOutcome(lr_get(ArenaNext, o), lr_get(Arena, o), o)
          /\ \A d \in Data : SameOutcome(lr_put(ArenaNext, d, o), lr_put(Arena, d, o), o)
    ]_vars

\* C17: per owner lr_pop returns the values in the reverse of the order
\* lr_put and lr_push put them in: a successful lr_push appends its value
\* behind the owner's values, a successful lr_pop returns and removes the last
\* of them and releases the record with the last element, and an lr_pop
\* leaves every other owner's sequence as it was.
C17_PopReturnsReverseOrder ==
  [][ /\ (last'.op = "push" /\ last'.res = LR_OK) =>
           OwnerSeq(ArenaNext, last'.owner) = Append(OwnerSeq(Arena, last'.owner), last'.data)
      /\ (last'.op = "pop" /\ last'.res = LR_OK) =>
           /\ OwnerSeq(Arena, last'.owner) \notin {<<>>, BROKEN}
           /\ last'.out = OwnerSeq(Arena, last'.owner)[Len(OwnerSeq(Arena, last'.owner))]
           /\ OwnerSeq(ArenaNext, last'.owner) =
                SubSeq(OwnerSeq(Arena, last'.owner), 1, Len(OwnerSeq(Arena, last'.owner)) - 1)
           /\ Len(OwnerSeq(Arena, last'.owner)) = 1 => ~HasRecord(ArenaNext, last'.owner)
      /\ (last'.op = "pop" /\ Completed(last'.res)) =>
           \A b \in OwnerId \ {last'.owner} : OwnerSeq(ArenaNext, b) = OwnerSeq(Arena, b)
    ]_vars

Min(a, b) == IF a <= b THEN a ELSE b

\* the sequence s with v put in behind its first p values
InsertedAt(s, p, v) == SubSeq(s, 1, p) \o <<v>> \o SubSeq(s, p + 1, Len(s))

\* C18: for an owner with n >= 1 elements and a free cell, lr_insert(v, O, k)
\* returns LR_OK and the owner's sequence becomes the old one with v put in at
\* position min(k, n): at the head for k = 0, at the tail (the record's tail
\* pointer following) for k >= n; every other owner's sequence stays.
C18_InsertAtIndex ==
  [][ (/\ last'.op = "insert"
       /\ OwnerSeq(Arena, last'.owner) \notin {<<>>, BROKEN}
       /\ write # NULL)
      => /\ last'.res = LR_OK
         /\ OwnerSeq(ArenaNext, last'.owner) =
              InsertedAt(OwnerSeq(Arena, last'.owner),
                         Min(last'.index, Len(OwnerSeq(Arena, last'.owner))), last'.data)
         /\ \A b \in OwnerId \ {last'.owner} : OwnerSeq(ArenaNext, b) = OwnerSeq(Arena, b)
    ]_vars

\* the sequence s without its value at position p, counted from 0
RemovedAt(s, p) == SubSeq(s, 1, p) \o SubSeq(s, p + 2, Len(s))

\* C19: for an owner with n elements and 0 <= k < n, lr_pull(O, k) returns
\* LR_OK with the k-th value from the head and removes exactly that element:
\* the others keep their order, the record's tail pointer moves to the
\* predecessor for k = n - 1, and the record is released for n = 1.
C19_PullAtIndex ==
  [][ (/\ last'.op = "pull"
       /\ OwnerSeq(Arena, last'.owner) \notin {<<>>, BROKEN}
       /\ last'.index < Len(OwnerSeq(Arena, last'.owner)))
      => /\ last'.res = LR_OK
         /\ last'.out = OwnerSeq(Arena, last'.owner)[last'.index + 1]
         /\ OwnerSeq(ArenaNext, last'.owner) = RemovedAt(OwnerSeq(Arena, last'.owner), last'.index)
         /\ Len(OwnerSeq(Arena, last'.owner)) = 1 => ~HasRecord(ArenaNext, last'.owner)
    ]_vars

\* C20: a removal returns BufferEmpty exactly when the owner has no
\* record, and lr_pull with an index at or past the length of an existing
\* owner's sequence returns InvalidIndex.
C20_EmptyIffNoRecord ==
  [][ /\ (last'.op \in Removals /\ Completed(last'.res)) =>
           (last'.res = LR_ERROR_BUFFER_EMPTY <=> ~HasRecord(Arena, last'.owner))
      /\ (/\ last'.op = "pull"
          /\ OwnerSeq(Arena, last'.owner) \notin {<<>>, BROKEN}
          /\ last'.index >= Len(OwnerSeq(Arena, last'.owner)))
         => last'.res = LR_ERROR_INVALID_INDEX
    ]_vars

\* the owner ids of the registry, lowest record first
Registry(lr) == [k \in 1 .. lr_owners_count(lr) |-> lr.cells[lr.owners + k - 1].data]

\* C21: in every reachable state and for every owner, lr_pull(O, 0) and
\* lr_get(O) return the same result and value and leave equivalent arenas:
\* the same sequence for every owner, the same registry and a null-terminated
\* free list of the same length.
C21_PullZeroIsGet ==
  ~Faulted =>
    \A o \in OwnerId :
      LET g == lr_get(Arena, o)
          p == lr_pull(Arena, o, 0)
      IN /\ p.res = g.res
         /\ p.out = g.out
         /\ \A b \in OwnerId : OwnerSeq(p.lr, b) = OwnerSeq(g.lr, b)
         /\ Registry(p.lr) = Registry(g.lr)
         /\ FreeCells(p.lr) # BROKEN
         /\ Len(FreeCells(p.lr)) = Len(FreeCells(g.lr))

\* the cell reached from p after n steps along next; BAD when a step leaves
\* the array
RECURSIVE StepsFrom(_, _, _)
StepsFrom(c, p, n) ==
  IF n = 0 THEN p
  ELSE IF p \notin DOMAIN c THEN BAD
  ELSE StepsFrom(c, c[p].next, n - 1)

\* from head the walk along next is back at head after exactly n steps
BackAfter(c, head, n) ==
  /\ n >= 1
  /\ StepsFrom(c, head, n) = head
  /\ \A k \in 1 .. (n - 1) : StepsFrom(c, head, k) # head

\* C22: for every owner with a record, following next from its head returns
\* to the head after exactly lr_count_owned steps, the tail being the cell
\* visited last (tail.next == head), also with several owners holding data.
C22_OwnerRingClosed ==
  ~Faulted =>
    \A r \in OwnerRecords(Arena) :
      /\ lr_count_owned(Arena, cells[r].data).res = LR_OK
      /\ BackAfter(cells, lr_owner_head(Arena, r), lr_count_owned(Arena, cells[r].data).out)
      /\ StepsFrom(cells, lr_owner_head(Arena, r),
                   lr_count_owned(Arena, cells[r].data).out - 1) = cells[r].next

\* the cells visited from p in n steps along next
Orbit(c, p, n) == {StepsFrom(c, p, k) : k \in 0 .. (n - 1)}

\* the record whose owner's head follows the tail of the record at a
HeadAfter(lr, a) == IF a = lr.owners THEN lr.size - 1 ELSE a - 1

\* all data cells lie on one cycle, owner by owner, and the tail of the
\* record at a is followed by the head of the record HeadAfter(a)
OneRing(lr) ==
  /\ \A r \in OwnerRecords(lr) : OwnerCells(lr, r) # BROKEN
  /\ \A r \in OwnerRecords(lr) :
       LET head == lr_owner_head(lr, r)
       IN /\ BackAfter(lr.cells, head, DataCount(lr))
          /\ Orbit(lr.cells, head, DataCount(lr)) = DataCells(lr)
          /\ Cardinality(DataCells(lr)) = DataCount(lr)
  /\ \A a \in OwnerRecords(lr) :
       lr.cells[lr.cells[a].next].next = OwnerCells(lr, HeadAfter(lr, a))[1]

\* C23: with at least one owner all data cells form one single cycle in
\* which every owner's cells are contiguous from its head to its tail; the
\* tail of the record at address a is followed by the head of the owner
\* recorded at a - 1, and that of the lowest record by the head of the owner
\* in the last array cell; lr_owner_head is the oldest remaining element:
\* lr_get returns its value, and an lr_put to an owner that has elements
\* leaves it in place.
C23_OneRingOwnerByOwner ==
  [][ (~Faulted' /\ owners' # NULL) =>
        /\ OneRing(ArenaNext)
        /\ \A r \in OwnerRecords(ArenaNext) :
             lr_get(ArenaNext, cells'[r].data).out = cells'[lr_owner_head(ArenaNext, r)].data
        /\ (last'.op = "put" /\ last'.res = LR_OK /\ HasRecord(Arena, last'.owner)) =>
             lr_owner_head(ArenaNext, lr_owner_find(ArenaNext, last'.owner))
               = lr_owner_head(Arena, lr_owner_find(Arena, last'.owner)) ]_vars

\* ---- lr_init on an array with earlier contents; fill and drain rounds ----

MaxFills == 2

\* what a pointer can hold before lr_init writes it: null, a pointer
\* outside the array, or a stale pointer to cells[0]
PriorNext == {NULL, WILD, 0}

\* lr_init(lr, n, cells) with cells the array lr.cells (given) or NULL: the
\* loop sets the next of cells[0 .. n - 2]; no data and not the next of
\* cells[n - 1] are written
lr_init(lr, n, given) ==
  IF ~given \/ n = 0 THEN Ret(lr, LR_ERROR_NOMEMORY, 0, 1)
  ELSE Ret([cells  |-> [i \in 0 .. n - 1 |->
                          [data |-> lr.cells[i].data,
                           next |-> IF i < n - 1 THEN i + 1 ELSE lr.cells[i].next]],
            size   |-> n,
            write  |-> 0,
            owners |-> NULL],
           LR_OK, 0, 1)

\* a malloc'ed array: the words hold what was there
Malloced(n, fill, d) == [i \in 0 .. n - 1 |-> [data |-> d, next |-> fill]]

\* test_initialization, test_buffer_full_recovery: cells = malloc(...), the
\* fields of the buffer hold what was there
InitFill ==
  /\ size \in Sizes
  /\ \E fill \in PriorNext, d \in {0} \cup Data : cells = Malloced(size, fill, d)
  /\ write \in PriorNext
  /\ owners \in PriorNext
  /\ bound \in BOOLEAN
  /\ mtx = 0
  /\ pc = [t \in Threads |-> IF t = 1 THEN "new" ELSE "idle"]
  /\ arg = [t \in Threads |-> <<0, 0>>]
  /\ calls = [t \in Threads |-> 0]
  /\ last = [NoCall EXCEPT !.op = "malloc"]

\* result = lr_init(&buffer, n, cells) with n the length of the array or 0
\* and cells the array or NULL; last.data is 1 when the array was given,
\* last.index is n
LrInit ==
  /\ pc[1] = "new"
  /\ \E given \in BOOLEAN, n \in {0, size} :
       LET r == lr_init(Arena, n, given)
       IN /\ cells'  = r.lr.cells
          /\ size'   = r.lr.size
          /\ write'  = r.lr.write
          /\ owners' = r.lr.owners
          /\ bound'  = IF r.res = LR_OK THEN FALSE ELSE bound
          /\ pc'     = [pc EXCEPT ![1] = IF r.res = LR_OK THEN "idle" ELSE "new"]
          /\ last'   = [op |-> "init", owner |-> 0, data |-> IF given THEN 1 ELSE 0,
                        index |-> n, res |-> r.res, out |-> 0, str |-> <<>>]
  /\ UNCHANGED <<mtx, arg, calls>>

\* the caller's view of a call of a round that returned with result r;
\* arg[2][1] counts the elements the round has put and not yet got
InRound(op, data, r, step, to) ==
  /\ cells'  = r.lr.cells
  /\ size'   = r.lr.size
  /\ write'  = r.lr.write
  /\ owners' = r.lr.owners
  /\ last'   = [op |-> op, owner |-> arg[1][2], data |-> data, index |-> 0,
                res |-> r.res, out |-> r.out, str |-> r.str]
  /\ arg'    = [arg EXCEPT ![2] = <<arg[2][1] + step, 0>>]
  /\ pc'     = [pc EXCEPT ![1] = to]
  /\ UNCHANGED <<bound, mtx>>

\* a round of n elements for one owner starts: n <= size - 1
FillBegin ==
  /\ ~Faulted /\ pc[1] = "idle" /\ calls[1] < MaxFills
  /\ \E n \in 1 .. (size - 1), o \in OwnerId : arg' = [arg EXCEPT ![1] = <<n, o>>]
  /\ pc' = [pc EXCEPT ![1] = "fill"]
  /\ calls' = [calls EXCEPT ![1] = @ + 1]
  /\ UNCHANGED <<cells, size, write, owners, bound, mtx, last>>

\* for (i = 0; i < n; i++) result = lr_put(&buffer, i, 1);
FillPut ==
  /\ ~Faulted /\ pc[1] = "fill"
  /\ \E d \in Data :
       InRound("put", d, lr_put(Arena, d, arg[1][2]), 1,
               IF arg[2][1] + 1 = arg[1][1] THEN "drain" ELSE "fill")
  /\ UNCHANGED calls

\* for (i = 0; i < n; i++) result = lr_get(&buffer, &data, 1);
DrainGet ==
  /\ ~Faulted /\ pc[1] = "drain"
  /\ InRound("get", 0, lr_get(Arena, arg[1][2]), -1,
             IF arg[2][1] = 1 THEN "idle" ELSE "drain")
  /\ UNCHANGED calls

NextFill == LrInit \/ FillBegin \/ FillPut \/ DrainGet

SpecFill == InitFill /\ [][NextFill]_vars

\* all size cells are on the free list, which ends in null
AllFree(lr) ==
  /\ FreeCells(lr) # BROKEN
  /\ Len(FreeCells(lr)) = lr.size
  /\ Range(FreeCells(lr)) = 0 .. (lr.size - 1)

\* C24: from a fresh arena, n lr_put for one owner followed by n lr_get all
\* succeed and leave owners = NULL, lr_count() = 0 and all size cells on a
\* null-terminated free list, for every n <= size - 1 and in every
\* repetition of the round.
C24_FillDrainRestores ==
  /\ last.op \in {"put", "get"} => last.res = LR_OK
  /\ (pc[1] = "idle" /\ calls[1] >= 1) =>
       /\ owners = NULL
       /\ lr_count(Arena).res = LR_OK
       /\ lr_count(Arena).out = 0
       /\ AllFree(Arena)

\* ---- lr_put_string ----

MaxStrLen == 3

\* the zero-free byte strings of up to MaxStrLen bytes
Strings == UNION {[1 .. n -> Data] : n \in 0 .. MaxStrLen}

\* the array a char pointer to the string s points to
CString(s) == s \o <<0>>

\* out is the number of bytes lr_put accepted before the return
RECURSIVE lr_put_string_from(_, _, _, _)
\* the step of the loop as it would be with `if (*data)` for `while (*data)`
PutStringNext_once(r, data, owner, k) ==
  IF ~Completed(r.res) THEN r
  ELSE IF r.res = LR_ERROR_BUFFER_FULL THEN Ret(r.lr, LR_ERROR_BUFFER_FULL, k, 1)
  ELSE Ret(r.lr, LR_OK, k + 1, 1)

\* if (lr_put(lr, *(data++), owner) == LR_ERROR_BUFFER_FULL) return LR_ERROR_BUFFER_FULL;
PutStringNext(r, data, owner, k) ==
  IF ~Completed(r.res) THEN r
  ELSE IF r.res = LR_ERROR_BUFFER_FULL THEN Ret(r.lr, LR_ERROR_BUFFER_FULL, k, 1)
  ELSE lr_put_string_from(r.lr, Tail(data), owner, k + 1)

\* while (*data) { ... } return LR_OK;
lr_put_string_from(lr, data, owner, k) ==
  IF Head(data) = 0 THEN Ret(lr, LR_OK, k, 1)
  ELSE PutStringNext(lr_put(lr, Head(data), owner), data, owner, k)

\* lr_put_string as it would be if a full buffer took the bytes back
lr_put_string_undone(lr, data, owner) ==
  IF lr_put_string_from(lr, data, owner, 0).res = LR_ERROR_BUFFER_FULL
  THEN Ret(lr, LR_ERROR_BUFFER_FULL, 0, 1)
  ELSE lr_put_string_from(lr, data, owner, 0)

lr_put_string(lr, data, owner) == lr_put_string_from(lr, data, owner, 0)

\* the caller's view of lr_put_string(s, o) that returned with result r
PutString ==
  /\ ~Faulted /\ calls[1] < MaxSeqCalls
  /\ \E s \in Strings, o \in OwnerId :
       LET r == lr_put_string(Arena, CString(s), o)
       IN Returned("put_string", o, 0, 0, [r EXCEPT !.str = s])
  /\ UNCHANGED <<bound, mtx, pc, arg>>

NextStr == Next \/ PutString

SpecStr == Init /\ [][NextStr]_vars

\* the values n successive lr_get(owner) return, in order; BROKEN when one
\* of them does not return LR_OK
RECURSIVE Gets(_, _, _)
Gets(lr, owner, n) ==
  IF n = 0 THEN <<>>
  ELSE LET g == lr_get(lr, owner)
       IN IF g.res # LR_OK THEN BROKEN
          ELSE LET rest == Gets(g.lr, owner, n - 1)
               IN IF rest = BROKEN THEN BROKEN ELSE <<g.out>> \o rest

ArenaInvariants(lr) ==
  /\ WellFormed(lr)
  /\ lr_owners_count(lr) + DataCount(lr) + Len(FreeCells(lr)) = lr.size
  /\ Range(FreeCells(lr)) \cap (DataCells(lr) \cup OwnerRecords(lr)) = {}
  /\ Cardinality(Range(FreeCells(lr))) = Len(FreeCells(lr))

\* the bytes the free cells have room for: a new owner's record takes one
Room(lr, owner) ==
  IF HasRecord(lr, owner) THEN Len(FreeCells(lr))
  ELSE IF Len(FreeCells(lr)) >= 1 THEN Len(FreeCells(lr)) - 1 ELSE 0

Limits == 0 .. 2

\* the caller's view of lr_count(lr)
Count ==
  /\ ~Faulted /\ calls[1] < MaxSeqCalls
  /\ Returned("count", 0, 0, 0, lr_count(Arena))
  /\ UNCHANGED <<bound, mtx, pc, arg>>

\* the caller's view of lr_count_limited_owned(lr, limit, owner); the limit
\* is recorded as the index of the call
CountLimitedOwned ==
  /\ ~Faulted /\ calls[1] < MaxSeqCalls
  /\ \E o \in OwnerId, limit \in Limits :
       Returned("count_limited_owned", o, 0, limit, lr_count_limited_owned(Arena, limit, o))
  /\ UNCHANGED <<bound, mtx, pc, arg>>

NextInfo == Next \/ Count \/ CountLimitedOwned

SpecInfo == Init /\ [][NextInfo]_vars

Reports == Peeks \cup {"count", "count_limited_owned"}

\* C28: lr_read, lr_read_at, lr_read_string, lr_count and
\* lr_count_limited_owned (lr_exists, lr_count_owned) leave every cell, write
\* and owners as they were before the call, whatever the result.
C28_ReportsLeaveArena ==
  [][ last'.op \in Reports => ArenaNext = Arena ]_vars

\* lr_count_owned returned the number of an owner's two elements
C28_Witness ==
  /\ last.op = "count_limited_owned" /\ last.index = 0
  /\ last.res = LR_OK /\ last.out = 2
  /\ Len(OwnerSeq(Arena, last.owner)) = 2

\* the number of values successive lr_get(owner) return before
\* LR_ERROR_BUFFER_EMPTY; BAD when a call dies or they do not end
RECURSIVE GetsUntilEmpty(_, _, _)
GetsUntilEmpty(lr, owner, fuel) ==
  LET g == lr_get(lr, owner)
  IN IF g.res = LR_ERROR_BUFFER_EMPTY THEN 0
     ELSE IF g.res # LR_OK \/ fuel = 0 THEN BAD
     ELSE LET rest == GetsUntilEmpty(g.lr, owner, fuel - 1)
          IN IF rest = BAD THEN BAD ELSE 1 + rest

RECURSIVE SumCountOwned(_, _)
SumCountOwned(lr, ids) ==
  IF ids = {} THEN 0
  ELSE LET o == CHOOSE x \in ids : TRUE
       IN lr_count_owned(lr, o).out + SumCountOwned(lr, ids \ {o})

\* C29: in every reachable state lr_count() is the sum of lr_count_owned(O)
\* over the owners with a record, and lr_count_owned(O) is the number of
\* values successive lr_get(O) return before LR_ERROR_BUFFER_EMPTY, 0 for an
\* owner without a record.
C29_CountsAgree ==
  ~Faulted =>
    /\ lr_count(Arena).res = LR_OK
    /\ \A o \in OwnerId : lr_count_owned(Arena, o).res = LR_OK
    /\ lr_count(Arena).out = SumCountOwned(Arena, {o \in OwnerId : HasRecord(Arena, o)})
    /\ \A o \in OwnerId : lr_count_owned(Arena, o).out = GetsUntilEmpty(Arena, o, size)
    /\ \A o \in OwnerId : ~HasRecord(Arena, o) => lr_count_owned(Arena, o).out = 0

\* C30: lr_init with the cell array given and size >= 1 returns LR_OK and
\* establishes, whatever the array and the buffer held, write = cells,
\* owners = NULL, no mutex bound and the free list cells[0] -> cells[1] ->
\* ... -> cells[size - 1] -> null of size cells.
C30_InitEstablishesFreeList ==
  [][ (last'.op = "init" /\ last'.data = 1 /\ last'.index >= 1) =>
        /\ last'.res = LR_OK
        /\ write' = 0
        /\ owners' = NULL
        /\ ~bound'
        /\ FreeCells(ArenaNext) = [k \in 1 .. size' |-> k - 1] ]_vars

\* ---- lr_set_mutex with null functions ----

\* lr_init, then lr_set_mutex(lr, &attr) with attr.lock either NULL or a
\* function that returns LR_OK and attr.unlock either NULL or a function
InitNF ==
  /\ size \in Sizes
  /\ cells = InitCells(size)
  /\ write = 0
  /\ owners = NULL
  /\ bound \in BOOLEAN
  /\ mtx = 0
  /\ pc \in {[t \in Threads |-> "idle"],
             [t \in Threads |-> IF t = 2 THEN "no_unlock" ELSE "idle"]}
  /\ arg = [t \in Threads |-> <<0, 0>>]
  /\ calls = [t \in Threads |-> 0]
  /\ last = NoCall

SpecNF == InitNF /\ [][Next]_vars

\* the call recorded in c as it runs on lr with no mutex bound
PlainCall(lr, c) ==
  CASE c.op = "put"         -> lr_put(lr, c.data, c.owner)
    [] c.op = "push"        -> lr_push(lr, c.data, c.owner)
    [] c.op = "insert"      -> lr_insert(lr, c.data, c.owner, c.index)
    [] c.op = "get"         -> lr_get(lr, c.owner)
    [] c.op = "pop"         -> lr_pop(lr, c.owner)
    [] c.op = "pull"        -> lr_pull(lr, c.owner, c.index)
    [] c.op = "read"        -> lr_read(lr, c.owner)
    [] c.op = "read_at"     -> lr_read_at(lr, c.owner, c.index)
    [] c.op = "read_string" -> lr_read_string(lr, c.owner)

\* C31: with a null lock or a null unlock given to lr_set_mutex, the null
\* function is never invoked: every operation completes with the result, the
\* value and the arena it has with no mutex bound, also with lock non-null
\* and unlock null.
C31_NullFunctionsAreNoOps ==
  [][ (~bound \/ pc[2] = "no_unlock") =>
        /\ last'.res = PlainCall(Arena, last').res
        /\ last'.out = PlainCall(Arena, last').out
        /\ ArenaNext = PlainCall(Arena, last').lr ]_vars

\* C32: in an arena of size 3 that holds one owner with one element and so
\* exactly one free cell, lr_put for a second, new owner returns LR_OK and
\* fills the arena, and a following lr_put for a third new owner returns
\* LR_ERROR_BUFFER_FULL.
C32_SecondOwnerInLastCell ==
  [][ (/\ last'.op = "put"
       /\ size = 3
       /\ lr_owners_count(Arena) = 1
       /\ ArenaInvariants(Arena)
       /\ DataCount(Arena) = 1
       /\ Len(FreeCells(Arena)) = 1
       /\ ~HasRecord(Arena, last'.owner)) =>
        /\ last'.res = LR_OK
        /\ write' = NULL
        /\ lr_put(ArenaNext, last'.data, MaxOwner + 1).res = LR_ERROR_BUFFER_FULL ]_vars

\* C33: after a successful lr_put(v, O) on an owner that has n >= 1 elements
\* v is the new head of O's sub-list (lr_read_at(O, 0) = v and the next
\* lr_get(O) returns v) while the previous tail stays the tail.
C33_PutAtHead ==
  [][ (/\ last'.op = "put" /\ last'.res = LR_OK
       /\ HasRecord(Arena, last'.owner)
       /\ OwnerSeq(Arena, last'.owner) \notin {<<>>, BROKEN}) =>
        /\ lr_read_at(ArenaNext, last'.owner, 0).out = last'.data
        /\ lr_get(ArenaNext, last'.owner).out = last'.data
        /\ cells'[lr_owner_find(ArenaNext, last'.owner)].next
             = cells[lr_owner_find(Arena, last'.owner)].next ]_vars

\* C34: after every operation that returned, the cells from owners to the
\* end of the array are exactly the owner records: their owner ids are
\* pairwise distinct, each has a non-null next that points at a data cell of
\* its owner, its tail, and no data cell and no free cell lies among them.
C34_RegistryDense ==
  ~Faulted =>
    /\ \A r1, r2 \in OwnerRecords(Arena) : cells[r1].data = cells[r2].data => r1 = r2
    /\ \A r \in OwnerRecords(Arena) :
         /\ cells[r].next \in DOMAIN cells \ OwnerRecords(Arena)
         /\ OwnerCells(Arena, r) # BROKEN
         /\ cells[r].next = OwnerCells(Arena, r)[Len(OwnerCells(Arena, r))]
         /\ \A q \in OwnerRecords(Arena) \ {r} :
              OwnerCells(Arena, q) # BROKEN =>
                cells[r].next \notin Range(OwnerCells(Arena, q))
    /\ Orbit(cells, write, size + 1) \cap OwnerRecords(Arena) = {}
    /\ DataCells(Arena) \cap OwnerRecords(Arena) = {}

\* ---- lr_put_string with a lock function that can fail ----

RECURSIVE lr_put_string_lockable(_, _, _, _, _, _)
\* if (lr_put(lr, *(data++), owner) == LR_ERROR_BUFFER_FULL) return LR_ERROR_BUFFER_FULL;
\* with r what lr_put returned for the byte k + 1
PutStringNextLocked(r, isbound, fail, data, owner, k) ==
  IF ~Completed(r.res) THEN r
  ELSE IF r.res = LR_ERROR_BUFFER_FULL THEN Ret(r.lr, LR_ERROR_BUFFER_FULL, k, 1)
  ELSE lr_put_string_lockable(r.lr, isbound, fail, Tail(data), owner, k + 1)

\* lr_put_string from its byte k + 1 on; the lock(lr) of lr_put returns
\* LR_ERROR_LOCK for the byte `fail` (for none when fail = 0); out is the
\* number of bytes lr_put was called for
lr_put_string_lockable(lr, isbound, fail, data, owner, k) ==
  IF Head(data) = 0 THEN Ret(lr, LR_OK, k, 1)
  ELSE PutStringNextLocked(
         Locked(lr, isbound, IF fail = k + 1 THEN LR_ERROR_LOCK ELSE LR_OK,
                lr_put(lr, Head(data), owner)),
         isbound, fail, data, owner, k)

\* the caller's view of lr_put_string(s, o); last.index is the byte for which
\* the lock function failed, last.lock what it returned then
LFPutString ==
  /\ ~Faulted /\ calls[1] < MaxLockCalls
  /\ \E s \in Strings, o \in OwnerId :
       \E fail \in 0 .. Len(s) :
         LET r == lr_put_string_lockable(Arena, bound, fail, CString(s), o, 0)
         IN ReturnedLF("put_string", o, 0, fail,
                       IF fail = 0 THEN LR_OK ELSE LR_ERROR_LOCK,
                       [r EXCEPT !.str = s])

NextLS == NextLF \/ LFPutString

SpecLS == InitMT /\ [][NextLS]_vars

\* C35: when the lock function returns a value other than LR_OK for some
\* byte of the string, lr_put_string returns that value; it returns LR_OK
\* only when every byte of the string was inserted, in order.
C35_PutStringReportsLockFailure ==
  [][ last'.op = "put_string" =>
        /\ last'.lock # LR_OK => last'.res = last'.lock
        /\ (last'.res = LR_OK /\ OwnerSeq(Arena, last'.owner) # BROKEN) =>
             OwnerSeq(ArenaNext, last'.owner) = OwnerSeq(Arena, last'.owner) \o last'.str ]_vars

\* C36: lr_insert(v, O, k) for an owner O without a record behaves for every
\* index k like lr_put(v, O): it returns what lr_put returns and leaves the
\* arena lr_put leaves, LR_OK with O holding [v] when two cells are free and
\* LR_ERROR_BUFFER_FULL with the arena unchanged otherwise, and it reads no
\* cell outside the array, also when the arena has no owner at all.
C36_InsertForNewOwnerIsPut ==
  [][ (last'.op = "insert" /\ ~HasRecord(Arena, last'.owner)) =>
        /\ Completed(last'.res)
        /\ last'.res = lr_put(Arena, last'.data, last'.owner).res
        /\ ArenaNext = lr_put(Arena, last'.data, last'.owner).lr
        /\ (ArenaInvariants(Arena) /\ Len(FreeCells(Arena)) >= 2) =>
             /\ last'.res = LR_OK
             /\ OwnerSeq(ArenaNext, last'.owner) = <<last'.data>>
        /\ (ArenaInvariants(Arena) /\ Len(FreeCells(Arena)) < 2) =>
             /\ last'.res = LR_ERROR_BUFFER_FULL
             /\ ArenaNext = Arena ]_vars

\* C37: for every reachable arena, value and owner lr_put and lr_push return
\* the same result and produce the same arena: both append the value at the
\* owner's tail and set the owner's tail pointer to the new cell.
C37_PushIsPut ==
  [][ last'.op \in {"put", "push"} =>
        /\ lr_push(Arena, last'.data, last'.owner).res = lr_put(Arena, last'.data, last'.owner).res
        /\ lr_push(Arena, last'.data, last'.owner).lr = lr_put(Arena, last'.data, last'.owner).lr
        /\ last'.res = lr_put(Arena, last'.data, last'.owner).res
        /\ ArenaNext = lr_put(Arena, last'.data, last'.owner).lr
        /\ last'.res = LR_OK =>
             /\ HasRecord(ArenaNext, last'.owner)
             /\ cells'[lr_owner_find(ArenaNext, last'.owner)].next \in DOMAIN cells'
             /\ cells'[cells'[lr_owner_find(ArenaNext, last'.owner)].next].data = last'.data
             /\ HasRecord(Arena, last'.owner) =>
                  cells'[cells[lr_owner_find(Arena, last'.owner)].next].next
                    = cells'[lr_owner_find(ArenaNext, last'.owner)].next ]_vars

\* C38: when lr_put, lr_push or lr_insert creates the record of a new owner and
\* the registry slot cells[size - owner_count - 1] holds a live data cell, that
\* datum moves to a free cell and every link to it is redirected: each owner
\* that had a record keeps its sequence, the new owner holds exactly the
\* inserted value, and the free list is shorter by exactly two cells.
C38_SwapKeepsSequences ==
  [][ ( /\ last'.op \in {"put", "push", "insert"}
        /\ last'.res = LR_OK
        /\ ~HasRecord(Arena, last'.owner)
        /\ (size - lr_owners_count(Arena) - 1) \in DataCells(Arena) )
      => /\ \A o \in OwnerId : HasRecord(Arena, o) =>
                                OwnerSeq(ArenaNext, o) = OwnerSeq(Arena, o)
         /\ OwnerSeq(ArenaNext, last'.owner) = <<last'.data>>
         /\ FreeCells(Arena) # BROKEN
         /\ FreeCells(ArenaNext) # BROKEN
         /\ Len(FreeCells(ArenaNext)) = Len(FreeCells(Arena)) - 2 ]_vars

\* C39: from lr_init on a zero-filled array on, no call dereferences a null
\* pointer or reads or writes outside cells[0 .. size): the neighbour scans of
\* lr_insert and lr_pop, the free-list search of lr_owner_allocate and the use
\* of its result in lr_owner_get all stay inside the array.
C39_NoInvalidAccess == last.res # SEGV

\* C40: every call returns: the ring walks of lr_count,
\* lr_count_limited_owned, lr_pop, lr_read_string and lr_cell_lookup and the
\* free-list walk of lr_owner_allocate reach their stop cell after at most
\* size steps.
C40_EveryCallReturns == last.res # HANG

====
